---- MODULE Spec2Model ----
(***************************************************************************)
(* Emerson's Dictionary (web/src/App.tsx): the uncommon-word pipeline      *)
(* (tokenize, rank, look up, extract an example) and the personal          *)
(* dictionary kept in one localStorage slot.                               *)
(*                                                                         *)
(* A JavaScript string is a sequence of one-character strings, one per     *)
(* UTF-16 code unit.  Two code units have names instead of glyphs:         *)
(* IDot is U+0130 (capital I with dot above) and CombDot is U+0307         *)
(* (combining dot above); IDot is the one code unit whose lower case is    *)
(* two code units long.                                                    *)
(***************************************************************************)
EXTENDS Integers, Sequences, FiniteSets, TLC

VARIABLES
  dictionaryData,  \* the bundled emerson_dictionary.json, as Object.entries lists it
  storage,         \* the localStorage slot "emerson_user_dictionary_v1"
  userDict,        \* React state: the personal dictionary as last rendered
  queue,           \* setUserDict updates React has accepted and not yet rendered
  mode,            \* React state: "upload" or "results"
  fileName,        \* React state
  uploadedText,    \* React state
  results,         \* the memoised result list of the last render
  lastCall,        \* history: the last upsertUserDefinition/removeUserWord call
  prevDict,        \* history: the mapping the last applied updater started from
  input,           \* the arguments of a direct call: a text and a word
  output,          \* what extractExampleSentence returned for them
  reading,         \* the files whose file.text() promise is pending, in call order
  supplied,        \* history: the file supplied last, and whether a reset followed
  attempt          \* history: the last call of a mutator, accepted or not

vars == <<dictionaryData, storage, userDict, queue, mode, fileName, uploadedText,
          results, lastCall, prevDict, input, output, reading, supplied, attempt>>

----------------------------------------------------------------------------
(* Strings *)

LowerLetters == <<"a","b","c","d","e","f","g","h","i","j","k","l","m",
                  "n","o","p","q","r","s","t","u","v","w","x","y","z">>
UpperLetters == <<"A","B","C","D","E","F","G","H","I","J","K","L","M",
                  "N","O","P","Q","R","S","T","U","V","W","X","Y","Z">>
Digits == {"0","1","2","3","4","5","6","7","8","9"}
IDot == "I-dot"
CombDot == "dot-above"

LowerSet == {LowerLetters[i] : i \in 1..26}
UpperSet == {UpperLetters[i] : i \in 1..26}

\* String.prototype.trim strips white space and line terminators.
WhiteSpace == {" ", "\t", "\n", "\r"}

Min(S) == CHOOSE x \in S : \A y \in S : x <= y
Max(S) == CHOOSE x \in S : \A y \in S : x >= y

\* s.slice(from, to) with 0-based from (inclusive) and to (exclusive).
Slice(s, from, to) == SubSeq(s, from + 1, to)

Trim(s) ==
  LET keep == {i \in 1..Len(s) : s[i] \notin WhiteSpace}
  IN  IF keep = {} THEN <<>> ELSE SubSeq(s, Min(keep), Max(keep))

LowerOfChar(c) ==
  IF c \in UpperSet
    THEN <<LowerLetters[CHOOSE i \in 1..26 : UpperLetters[i] = c]>>
    ELSE IF c = IDot THEN <<"i", CombDot>> ELSE <<c>>

RECURSIVE ToLowerRange(_, _, _)
ToLowerRange(s, lo, hi) ==
  IF lo > hi THEN <<>>
  ELSE IF lo = hi THEN LowerOfChar(s[lo])
  ELSE LET mid == (lo + hi) \div 2
       IN  ToLowerRange(s, lo, mid) \o ToLowerRange(s, mid + 1, hi)

toLowerCase(s) == ToLowerRange(s, 1, Len(s))

\* A variant that forgets the trim.
normalizeWordUntrimmed(word) == toLowerCase(word)

normalizeWord(word) == toLowerCase(Trim(word))

----------------------------------------------------------------------------
(* Tokenizer: text.toLowerCase().match(/[a-z]+(?:'[a-z]+)?/g) ?? [] *)

\* The first 1-based position at or after i that is past the run of [a-z].
RunEnd(s, i) == Min({j \in i..(Len(s) + 1) : j > Len(s) \/ s[j] \notin LowerSet})

\* The first position at or after i holding a letter, Len(s)+1 when none.
NextLetter(s, i) == Min({j \in i..(Len(s) + 1) : j > Len(s) \/ s[j] \in LowerSet})

\* A variant whose pattern is [a-z]+(?:'[a-z]*)? : the apostrophe is taken
\* even when no letter follows it.
RECURSIVE MatchAllTrailingApostrophe(_, _)
MatchAllTrailingApostrophe(s, i) ==
  LET b == NextLetter(s, i)
  IN  IF b > Len(s) THEN <<>>
      ELSE LET e1 == RunEnd(s, b)
               e  == IF e1 <= Len(s) /\ s[e1] = "'" THEN RunEnd(s, e1 + 1) ELSE e1
           IN  <<SubSeq(s, b, e - 1)>> \o MatchAllTrailingApostrophe(s, e)

\* The matches from 1-based position i on, left to right: a run of letters
\* and, when an apostrophe and a letter follow it, the run after that too.
RECURSIVE MatchAll(_, _)
MatchAll(s, i) ==
  LET b == NextLetter(s, i)
  IN  IF b > Len(s) THEN <<>>
      ELSE LET e1 == RunEnd(s, b)
               e  == IF e1 + 1 <= Len(s) /\ s[e1] = "'" /\ s[e1 + 1] \in LowerSet
                       THEN RunEnd(s, e1 + 1)
                       ELSE e1
           IN  <<SubSeq(s, b, e - 1)>> \o MatchAll(s, e)

\* No match holds a character that is neither a letter nor an apostrophe, so
\* the matches of s[lo..hi] are those left of such a character followed by
\* those right of it; the text is halved there until a piece has none.
RECURSIVE MatchPieces(_, _, _)
MatchPieces(s, lo, hi) ==
  LET cuts == {i \in lo..hi : s[i] \notin LowerSet \cup {"'"}}
      mid == (lo + hi) \div 2
      dist(i) == IF i < mid THEN mid - i ELSE i - mid
  IN  IF cuts = {} THEN MatchAll(SubSeq(s, lo, hi), 1)
      ELSE LET cut == CHOOSE i \in cuts : \A j \in cuts : dist(i) <= dist(j)
           IN  MatchPieces(s, lo, cut - 1) \o MatchPieces(s, cut + 1, hi)

tokenize(text) ==
  LET lower == toLowerCase(text)
  IN  MatchPieces(lower, 1, Len(lower))

STOPWORDS ==
  {
    <<"a">>, <<"a","n">>, <<"a","n","d">>, <<"a","r","e">>, <<"a","s">>, <<"a","t">>,
    <<"b","e">>, <<"b","e","e","n">>, <<"b","u","t">>, <<"b","y">>, <<"c","a","n">>,
    <<"c","o","u","l","d">>, <<"d","i","d">>, <<"d","o">>, <<"d","o","e","s">>,
    <<"f","o","r">>, <<"f","r","o","m">>, <<"h","a","d">>, <<"h","a","s">>,
    <<"h","a","v","e">>, <<"h","e">>, <<"h","e","r">>, <<"h","e","r","s">>, <<"h","i","m">>,
    <<"h","i","s">>, <<"h","o","w">>, <<"i">>, <<"i","f">>, <<"i","n">>, <<"i","n","t","o">>,
    <<"i","s">>, <<"i","t">>, <<"i","t","s">>, <<"j","u","s","t">>, <<"l","i","k","e">>,
    <<"m","a","y">>, <<"m","e">>, <<"m","i","g","h","t">>, <<"m","o","r","e">>,
    <<"m","o","s","t">>, <<"m","y">>, <<"n","o">>, <<"n","o","t">>, <<"o","f">>, <<"o","n">>,
    <<"o","n","e">>, <<"o","r">>, <<"o","u","r">>, <<"o","u","t">>, <<"s","a","i","d">>,
    <<"s","h","e">>, <<"s","h","o","u","l","d">>, <<"s","o">>, <<"s","o","m","e">>,
    <<"t","h","a","n">>, <<"t","h","a","t">>, <<"t","h","e">>, <<"t","h","e","i","r">>,
    <<"t","h","e","m">>, <<"t","h","e","n">>, <<"t","h","e","r","e">>, <<"t","h","e","s","e">>,
    <<"t","h","e","y">>, <<"t","h","i","s">>, <<"t","o">>, <<"t","o","o">>, <<"u","p">>,
    <<"u","s">>, <<"w","a","s">>, <<"w","e">>, <<"w","e","r","e">>, <<"w","h","a","t">>,
    <<"w","h","e","n">>, <<"w","h","e","r","e">>, <<"w","h","i","c","h">>, <<"w","h","o">>,
    <<"w","i","l","l">>, <<"w","i","t","h">>, <<"w","o","u","l","d">>, <<"y","o","u">>,
    <<"y","o","u","r">>
  }

LOCAL_STORAGE_KEY == <<"emerson_user_dictionary_v1">>

\* The two sentinel strings, each held as one unit: no input of the model
\* contains that unit, so a sentinel is never mistaken for user text.
NotInDictionary == <<"Not in your dictionary yet.">>
NoExample == <<"No example found in your text.">>

----------------------------------------------------------------------------
(* Example extractor *)

Terminators == {".", "!", "?", "\n"}

\* \w of a RegExp without the u flag.
WordChars == LowerSet \cup UpperSet \cup Digits \cup {"_"}

\* \b at 0-based position p of s: exactly one side is a word character.
IsBoundary(s, p) ==
  (p > 0 /\ s[p] \in WordChars) # (p < Len(s) /\ s[p + 1] \in WordChars)

\* A variant without the two \b: w is found inside a longer word too.
MatchesAtInsideWords(s, w, p) ==
  /\ p + Len(w) <= Len(s)
  /\ \A k \in 1..Len(w) : s[p + k] = w[k]

\* escapeRegExp makes every character of w match itself, so the pattern
\* \bw\b matches at 0-based p when w is read there between two boundaries.
MatchesAt(s, w, p) ==
  /\ p + Len(w) <= Len(s)
  /\ \A k \in 1..Len(w) : s[p + k] = w[k]
  /\ IsBoundary(s, p)
  /\ IsBoundary(s, p + Len(w))

\* String.prototype.search: the 0-based index of the first match, or -1.
Search(s, w) ==
  LET hits == {p \in 0..Len(s) : MatchesAt(s, w, p)}
  IN  IF hits = {} THEN -1 ELSE Min(hits)

\* text[k] for a 0-based k; undefined (here "") outside the string.
CharAt(text, k) == IF k >= 0 /\ k < Len(text) THEN text[k + 1] ELSE ""

\* The backward loop: start stops right after the nearest terminator before idx.
ScanStart(text, idx) ==
  LET stops == {k \in 1..idx : CharAt(text, k - 1) \in Terminators}
  IN  IF stops = {} THEN 0 ELSE Max(stops)

\* The forward loop: end stops right after the first terminator at or after idx,
\* or at text.length; it does not move when idx is already past the text.
ScanEnd(text, idx) ==
  LET stops == {k \in idx..(Len(text) - 1) : CharAt(text, k) \in Terminators}
  IN  IF stops = {} THEN Max({idx, Len(text)}) ELSE Min(stops) + 1

\* text.slice(start, end) clamps end to text.length.
SliceClamped(text, start, end) ==
  Slice(text, start, IF end > Len(text) THEN Len(text) ELSE end)

extractExampleSentence(text, word) ==
  LET lower == toLowerCase(text)
      w == toLowerCase(word)
      idx == Search(lower, w)
  IN  IF idx = -1 THEN NoExample
      ELSE LET sentence == Trim(SliceClamped(text, ScanStart(text, idx), ScanEnd(text, idx)))
           IN  IF Len(sentence) > 0 THEN sentence ELSE NoExample

----------------------------------------------------------------------------
(* Dictionaries *)

MapSet(m, k, v) == [x \in (DOMAIN m) \cup {k} |-> IF x = k THEN v ELSE m[x]]
MapDelete(m, k) == [x \in (DOMAIN m) \ {k} |-> m[x]]
EmptyMap == [x \in {} |-> <<>>]

\* entry?.definition ?? "" : a bundled entry may lack the field.
DefinitionOf(entry) ==
  IF "definition" \in DOMAIN entry THEN entry.definition ELSE <<>>

RECURSIVE BaseFrom(_, _)
BaseFrom(entries, m) ==
  IF entries = <<>> THEN m
  ELSE LET key == normalizeWord(Head(entries)[1])
           def == Trim(DefinitionOf(Head(entries)[2]))
       IN  BaseFrom(Tail(entries), IF key # <<>> /\ def # <<>> THEN MapSet(m, key, def) ELSE m)

baseDictMap == BaseFrom(dictionaryData, EmptyMap)

\* Object.entries(user) in any order: the keys a load, an upsert and a remove
\* leave are pairwise distinct after normalizeWord, so the order cannot matter.
RECURSIVE OverlayUser(_, _, _)
OverlayUser(m, user, keys) ==
  IF keys = {} THEN m
  ELSE LET k == CHOOSE x \in keys : TRUE
       IN  OverlayUser(MapSet(m, normalizeWord(k), user[k]), user, keys \ {k})

\* A variant that merges in the other order: the base entries overwrite the
\* user's.
combinedDictMapBaseLast(base, user) ==
  LET merged == OverlayUser(EmptyMap, user, DOMAIN user)
  IN  [k \in (DOMAIN merged) \cup (DOMAIN base) |->
         IF k \in DOMAIN base THEN base[k] ELSE merged[k]]

combinedDictMapOf(base, user) == OverlayUser(base, user, DOMAIN user)

\* combinedDictMap.get(normalizeWord(word)) ?? "Not in your dictionary yet."
Lookup(combined, word) ==
  LET key == normalizeWord(word)
  IN  IF key \in DOMAIN combined THEN combined[key] ELSE NotInDictionary

----------------------------------------------------------------------------
(* Ranker and result assembler *)

MinLength == 8
Limit == 75

\* [...counts.entries()]: each distinct token once, in order of first
\* appearance, with the number of its occurrences.
CountEntries(tokens) ==
  LET firsts == {i \in 1..Len(tokens) : \A j \in 1..(i - 1) : tokens[j] # tokens[i]}
      nth(k) == CHOOSE i \in firsts : Cardinality({j \in firsts : j <= i}) = k
      count(w) == Cardinality({i \in 1..Len(tokens) : tokens[i] = w})
  IN  [k \in 1..Cardinality(firsts) |-> <<tokens[nth(k)], count(tokens[nth(k)])>>]

\* A variant with the length test off by one: w.length <= 8 is discarded.
QualifiesAboveMinLength(w) == ~(w \in STOPWORDS) /\ ~(Len(w) <= MinLength)

Qualifies(w) == ~(w \in STOPWORDS) /\ ~(Len(w) < MinLength)

KeepEntry(entry) == Qualifies(entry[1])

FilterEntries(entries) == SelectSeq(entries, KeepEntry)

\* Collation order of the characters a token can hold: the apostrophe sorts
\* before every letter, letters alphabetically.
CollationRank(c) ==
  IF c \in LowerSet THEN CHOOSE i \in 1..26 : LowerLetters[i] = c ELSE 0

localeCompare(a, b) ==
  LET n == IF Len(a) < Len(b) THEN Len(a) ELSE Len(b)
      diff == {i \in 1..n : a[i] # b[i]}
  IN  IF diff = {}
        THEN (IF Len(a) < Len(b) THEN -1 ELSE IF Len(a) > Len(b) THEN 1 ELSE 0)
        ELSE IF CollationRank(a[Min(diff)]) < CollationRank(b[Min(diff)]) THEN -1 ELSE 1

\* A variant whose length tie-break is reversed: the shorter token first.
CompareShorterFirst(a, b) ==
  IF a[2] # b[2] THEN a[2] - b[2]
  ELSE IF Len(a[1]) # Len(b[1]) THEN Len(a[1]) - Len(b[1])
  ELSE localeCompare(a[1], b[1])

\* The sort comparator: negative when a goes first.
Compare(a, b) ==
  IF a[2] # b[2] THEN a[2] - b[2]
  ELSE IF Len(a[1]) # Len(b[1]) THEN Len(b[1]) - Len(a[1])
  ELSE localeCompare(a[1], b[1])

\* Array.prototype.sort is stable: an entry comes after those that compare
\* less than it and after the earlier ones that compare equal to it.
SortEntries(entries) ==
  LET n == Len(entries)
      rank == [i \in 1..n |->
                 1 + Cardinality({j \in 1..n :
                       \/ Compare(entries[j], entries[i]) < 0
                       \/ Compare(entries[j], entries[i]) = 0 /\ j < i})]
  IN  [k \in 1..n |-> entries[CHOOSE i \in 1..n : rank[i] = k]]

\* A variant that keeps one entry fewer: slice(0, 74).
TruncateOneShort(entries) ==
  SubSeq(entries, 1, IF Len(entries) < Limit - 1 THEN Len(entries) ELSE Limit - 1)

Truncate(entries) ==
  SubSeq(entries, 1, IF Len(entries) < Limit THEN Len(entries) ELSE Limit)

Filtered(text) == FilterEntries(CountEntries(tokenize(text)))

Candidates(text) == Truncate(SortEntries(Filtered(text)))

\* w stands at 0-based position p of s, character for character.
StandsAt(s, w, p) == p + Len(w) <= Len(s) /\ \A k \in 1..Len(w) : s[p + k] = w[k]

\* A variant that shows each word as its first occurrence is written in the
\* text.
ResultsOfSurfaceForm(text, combined) ==
  IF text = <<>> THEN <<>>
  ELSE LET candidates == Candidates(text)
           lower == toLowerCase(text)
           first(w) == Min({p \in 0..Len(lower) : StandsAt(lower, w, p)})
       IN  [i \in 1..Len(candidates) |->
              [word |-> Slice(text, first(candidates[i][1]),
                              first(candidates[i][1]) + Len(candidates[i][1])),
               definition |-> Lookup(combined, candidates[i][1]),
               exampleFromText |-> extractExampleSentence(text, candidates[i][1])]]

ResultsOf(text, combined) ==
  IF text = <<>> THEN <<>>
  ELSE LET candidates == Candidates(text)
       IN  [i \in 1..Len(candidates) |->
              [word |-> candidates[i][1],
               definition |-> Lookup(combined, candidates[i][1]),
               exampleFromText |-> extractExampleSentence(text, candidates[i][1])]]

----------------------------------------------------------------------------
(* Personal dictionary store *)

\* What localStorage.getItem returns: null (Absent), a string JSON.parse
\* rejects (Unparseable), or a string that parses to a JSON value.
Absent == [kind |-> "absent"]
Unparseable == [kind |-> "unparseable"]
Json(v) == [kind |-> "json", value |-> v]

JNull == [t |-> "null"]
JNumber(digits) == [t |-> "number", s |-> digits]
JString(s) == [t |-> "string", s |-> s]
JArray(items) == [t |-> "array", items |-> items]
JObject(entries) == [t |-> "object", entries |-> entries]

ProtoKey == <<"_","_","p","r","o","t","o","_","_">>

\* Object.entries(parsed): an object's own entries in order; an array's
\* entries are its indices, as strings, with its items.
IndexString(i) == <<CHOOSE c \in Digits : c = ToString(i)>>

ObjectEntries(v) ==
  IF v.t = "object" THEN v.entries
  ELSE [i \in 1..Len(v.items) |-> <<IndexString(i - 1), v.items[i]>>]

\* (v ?? "").toString()
ValueToString(v) == IF v.t = "null" THEN <<>> ELSE v.s

\* cleaned[nk] = nv is an ordinary assignment: for the key __proto__ it
\* reaches the setter inherited from Object.prototype, which ignores a
\* string, and cleaned gets no entry.
AssignProperty(obj, k, v) == IF k = ProtoKey THEN obj ELSE MapSet(obj, k, v)

RECURSIVE CleanEntries(_, _)
CleanEntries(entries, cleaned) ==
  IF entries = <<>> THEN cleaned
  ELSE LET nk == normalizeWord(Head(entries)[1])
           nv == Trim(ValueToString(Head(entries)[2]))
       IN  CleanEntries(Tail(entries),
                        IF nk # <<>> /\ nv # <<>> THEN AssignProperty(cleaned, nk, nv)
                                                  ELSE cleaned)

\* typeof parsed === "object" and parsed truthy: an object or an array.
loadUserDictionary(slot) ==
  IF slot.kind # "json" THEN EmptyMap
  ELSE IF slot.value.t \notin {"object", "array"} THEN EmptyMap
  ELSE CleanEntries(ObjectEntries(slot.value), EmptyMap)

RECURSIVE EntriesOf(_, _)
EntriesOf(dict, keys) ==
  IF keys = {} THEN <<>>
  ELSE LET k == CHOOSE x \in keys : TRUE
       IN  <<<<k, JString(dict[k])>>>> \o EntriesOf(dict, keys \ {k})

\* localStorage.setItem(LOCAL_STORAGE_KEY, JSON.stringify(dict)): the slot
\* then parses to an object with the own entries of dict, __proto__ included.
saveUserDictionary(dict) == Json(JObject(EntriesOf(dict, DOMAIN dict)))

----------------------------------------------------------------------------
(* Inputs *)

MaxQueue == 2

Aardvark == <<"a","a","r","d","v","a","r","k">>
AardvarkRaw == <<" ","A","a","r","d","V","A","R","K"," ">>
Abandons == <<"a","b","a","n","d","o","n","s">>
Whatever == <<"w","h","a","t","e","v","e","r">>

RawWords == {<<" ">>, Aardvark, AardvarkRaw, ProtoKey}
RawDefinitions == {<<" ", "\n">>, <<" ","y"," ">>}

\* "An Aardvark abandons whatever."
Text1 ==
  <<"A","n"," ">> \o <<"A">> \o Tail(Aardvark) \o <<" ">> \o Abandons \o <<" ">>
    \o Whatever \o <<".">>
\* "aardvark AARDVARK!\nWhatever"
Text2 ==
  Aardvark \o <<" ","A","A","R","D","V","A","R","K","!","\n","W">> \o Tail(Whatever)

DotTxt == <<".","t","x","t">>

Files == {[name |-> <<"o","n","e">> \o DotTxt, text |-> Text1],
          [name |-> <<"t","w","o">> \o DotTxt, text |-> Text2]}

BundledDictionaries ==
  { <<>>,
    << <<AardvarkRaw, [definition |-> <<" ","b","1"," ">>, pos |-> <<"n">>]>>,
       <<Abandons, [definition |-> <<"b","2">>]>>,
       <<Whatever, [pos |-> <<"p">>]>> >> }

PersistedSlots ==
  { Absent,
    Unparseable,
    Json(JNull),
    Json(JObject(<< <<AardvarkRaw, JString(<<" ","x"," ">>)>> >>)),
    Json(JObject(<< <<Aardvark, JString(<<"y">>)>>, <<ProtoKey, JString(<<"x">>)>> >>)),
    Json(JObject(<< <<<<" ">>, JString(<<"x">>)>>, <<Aardvark, JNull>> >>)) }

----------------------------------------------------------------------------
(* The application *)

NoCall == [op |-> "none", word |-> <<>>, definition |-> <<>>]

\* A variant with the spread last, { [w]: d, ...prev }: an existing entry wins.
UpsertUpdaterSpreadLast(prev, w, d) == IF w \in DOMAIN prev THEN prev ELSE MapSet(prev, w, d)

\* The updater upsertUserDefinition passes to setUserDict.
UpsertUpdater(prev, w, d) == MapSet(prev, w, d)
\* A variant without the delete.
RemoveUpdaterNoDelete(prev, w) == prev

\* The updater removeUserWord passes to setUserDict.
RemoveUpdater(prev, w) == MapDelete(prev, w)

RunUpdater(u, prev) ==
  IF u.op = "upsert" THEN UpsertUpdater(prev, u.w, u.d) ELSE RemoveUpdater(prev, u.w)

\* setUserDict(updater).  React keeps the updater for the next render; when
\* no update is pending it may instead run it at once and keep the state it
\* computed with the update.  The updater saves what it returns.
SetUserDict(u) ==
  /\ Len(queue) < MaxQueue
  /\ \/ /\ queue = <<>>
        /\ LET next == RunUpdater(u, userDict)
           IN  /\ storage' = saveUserDictionary(next)
               /\ queue' = <<[u EXCEPT !.hasEagerState = TRUE, !.eagerState = next]>>
     \/ /\ queue' = Append(queue, u)
        /\ storage' = storage

\* A variant whose guard tests the word alone: if (!w) return.
upsertUserDefinitionWordOnly(word, definition) ==
  LET w == normalizeWord(word)
      d == Trim(definition)
  IN  IF w = <<>>
        THEN UNCHANGED <<dictionaryData, storage, userDict, queue, mode, fileName,
                         uploadedText, results, lastCall, prevDict, input, output,
                         reading, supplied>>
        ELSE /\ SetUserDict([op |-> "upsert", w |-> w, d |-> d,
                             hasEagerState |-> FALSE, eagerState |-> EmptyMap])
             /\ lastCall' = [op |-> "upsert", word |-> word, definition |-> definition]
             /\ UNCHANGED <<dictionaryData, userDict, mode, fileName, uploadedText,
                            results, prevDict, input, output, reading, supplied>>

upsertUserDefinition(word, definition) ==
  LET w == normalizeWord(word)
      d == Trim(definition)
  IN  IF w = <<>> \/ d = <<>>
        THEN UNCHANGED <<dictionaryData, storage, userDict, queue, mode, fileName,
                         uploadedText, results, lastCall, prevDict, input, output,
                         reading, supplied>>
        ELSE /\ SetUserDict([op |-> "upsert", w |-> w, d |-> d,
                             hasEagerState |-> FALSE, eagerState |-> EmptyMap])
             /\ lastCall' = [op |-> "upsert", word |-> word, definition |-> definition]
             /\ UNCHANGED <<dictionaryData, userDict, mode, fileName, uploadedText,
                            results, prevDict, input, output, reading, supplied>>

removeUserWord(word) ==
  LET w == normalizeWord(word)
  IN  IF w = <<>>
        THEN UNCHANGED <<dictionaryData, storage, userDict, queue, mode, fileName,
                         uploadedText, results, lastCall, prevDict, input, output,
                         reading, supplied>>
        ELSE /\ SetUserDict([op |-> "remove", w |-> w, d |-> <<>>,
                             hasEagerState |-> FALSE, eagerState |-> EmptyMap])
             /\ lastCall' = [op |-> "remove", word |-> word, definition |-> <<>>]
             /\ UNCHANGED <<dictionaryData, userDict, mode, fileName, uploadedText,
                            results, prevDict, input, output, reading, supplied>>

\* React works through the pending updates of the hook in order: an update
\* with an eagerly computed state yields that state, any other runs its
\* updater, which saves.  The result is <<state, slot, state before the
\* last update>>.
RECURSIVE ProcessQueue(_, _, _, _)
ProcessQueue(q, state, slot, before) ==
  IF q = <<>> THEN <<state, slot, before>>
  ELSE IF Head(q).hasEagerState
    THEN ProcessQueue(Tail(q), Head(q).eagerState, slot, state)
    ELSE LET next == RunUpdater(Head(q), state)
         IN  ProcessQueue(Tail(q), next, saveUserDictionary(next), state)

\* A variant whose memo depends on the text alone: it keeps the list of the
\* last render while the text stays the same.
resultsMemoTextOnly(text, user) ==
  IF text = uploadedText
    THEN results
    ELSE ResultsOf(text, combinedDictMapOf(baseDictMap, user))

\* The results memo as a render computes it from the state it renders: its
\* dependencies are the text and the merged map, and every update of the user
\* mapping is a new object, so a render after one computes the list anew.
resultsMemo(text, user) == ResultsOf(text, combinedDictMapOf(baseDictMap, user))

\* The render that ends an event in which setUserDict was called: the
\* pending updates are applied in order and the memos are recomputed.
Render ==
  /\ queue # <<>>
  /\ LET done == ProcessQueue(queue, userDict, storage, prevDict)
     IN  /\ userDict' = done[1]
         /\ storage' = done[2]
         /\ prevDict' = done[3]
         /\ results' = resultsMemo(uploadedText, done[1])
  /\ queue' = <<>>
  /\ UNCHANGED <<dictionaryData, mode, fileName, uploadedText, lastCall, input, output,
                 reading, supplied, attempt>>

\* handleFile after its await, a task of its own: three state setters and the
\* render of that batch.
handleFile(file) ==
  /\ queue = <<>>
  /\ uploadedText' = file.text
  /\ fileName' = file.name
  /\ mode' = "results"
  /\ results' = resultsMemo(file.text, userDict)
  /\ UNCHANGED <<dictionaryData, storage, userDict, queue, lastCall, prevDict,
                 input, output, attempt>>

onReset ==
  /\ queue = <<>>
  /\ uploadedText' = <<>>
  /\ fileName' = <<>>
  /\ mode' = "upload"
  /\ results' = resultsMemo(<<>>, userDict)
  /\ UNCHANGED <<dictionaryData, storage, userDict, queue, lastCall, prevDict,
                 input, output, attempt>>

\* The page is loaded again: the state is built anew from the slot.
Reload ==
  /\ queue = <<>>
  /\ userDict' = loadUserDictionary(storage)
  /\ prevDict' = loadUserDictionary(storage)
  /\ mode' = "upload"
  /\ fileName' = <<>>
  /\ uploadedText' = <<>>
  /\ results' = <<>>
  /\ lastCall' = NoCall
  /\ UNCHANGED <<dictionaryData, storage, queue, input, output, reading, supplied,
                 attempt>>

NoInput == [text |-> <<>>, word |-> <<>>]

\* No file supplied yet.
NoFile == [name |-> <<>>, text |-> <<>>, reset |-> FALSE]

Init ==
  /\ dictionaryData \in BundledDictionaries
  /\ storage \in PersistedSlots
  /\ userDict = loadUserDictionary(storage)
  /\ prevDict = loadUserDictionary(storage)
  /\ queue = <<>>
  /\ mode = "upload"
  /\ fileName = <<>>
  /\ uploadedText = <<>>
  /\ results = <<>>
  /\ lastCall = NoCall
  /\ input = NoInput
  /\ output = <<>>
  /\ reading = <<>>
  /\ supplied = NoFile
  /\ attempt = NoCall

\* The two callbacks are handed to ResultsDisplay alone, which App mounts in
\* "results" mode only.  The words and definitions are any the model has: the
\* manual add form takes free text.
Upsert ==
  /\ mode = "results"
  /\ \E word \in RawWords, definition \in RawDefinitions :
       upsertUserDefinition(word, definition)
  /\ UNCHANGED attempt
Remove ==
  /\ mode = "results"
  /\ \E word \in RawWords : removeUserWord(word)
  /\ UNCHANGED attempt
\* A file is supplied and its read resolves, in one step.
Upload ==
  /\ \E file \in Files : handleFile(file)
  /\ UNCHANGED <<reading, supplied>>
Reset ==
  /\ onReset
  /\ UNCHANGED <<reading, supplied>>

Next == Upsert \/ Remove \/ Upload \/ Reset \/ Render \/ Reload

Spec == Init /\ [][Next]_vars

----------------------------------------------------------------------------
(* The application with each call of a mutator on record *)

\* saveManual of ResultsDisplay with the two fields of the add form;
\* saveEdit does the same with the word of a result card and the edited
\* definition.
saveManual(newWord, newDef) ==
  LET w == Trim(newWord)
      d == Trim(newDef)
  IN  IF w = <<>> \/ d = <<>>
        THEN UNCHANGED <<dictionaryData, storage, userDict, queue, mode, fileName,
                         uploadedText, results, lastCall, prevDict, input, output,
                         reading, supplied>>
        ELSE upsertUserDefinition(w, d)

CallWords == {<<" ">>, AardvarkRaw}

\* The add form is submitted.
FormCall ==
  /\ mode = "results"
  /\ \E word \in CallWords, definition \in RawDefinitions :
       /\ saveManual(word, definition)
       /\ attempt' = [op |-> "form", word |-> word, definition |-> definition]

\* onSaveDefinition is called with any word and definition.
UpsertCall ==
  /\ mode = "results"
  /\ \E word \in CallWords, definition \in RawDefinitions :
       /\ upsertUserDefinition(word, definition)
       /\ attempt' = [op |-> "upsert", word |-> word, definition |-> definition]

RemoveCall ==
  /\ mode = "results"
  /\ \E word \in CallWords :
       /\ removeUserWord(word)
       /\ attempt' = [op |-> "remove", word |-> word, definition |-> <<>>]

InitCalls == Init /\ storage = Absent

NextCalls == FormCall \/ UpsertCall \/ RemoveCall \/ Upload \/ Reset \/ Render

SpecCalls == InitCalls /\ [][NextCalls]_vars

----------------------------------------------------------------------------
(* The ranker on its own: one upload of each text of RankTexts *)

MaxTokens == 3
MaxOver == 2

The == <<"t","h","e">>
Abandon == <<"a","b","a","n","d","o","n">>
AardvarkUpper == <<"A","A","R","D","V","A","R","K">>
AardvarksPossessive == Aardvark \o <<"'","s">>
Aardvarkes == Aardvark \o <<"e","s">>

AbandonsDigit == Abandons \o <<"1">>

Vocabulary ==
  {The, Abandon, Aardvark, AardvarkUpper, Abandons, AardvarksPossessive, Aardvarkes,
   AbandonsDigit}

RECURSIVE JoinRange(_, _, _)
JoinRange(ws, lo, hi) ==
  IF lo > hi THEN <<>>
  ELSE IF lo = hi THEN ws[lo]
  ELSE LET mid == (lo + hi) \div 2
       IN  JoinRange(ws, lo, mid) \o <<" ">> \o JoinRange(ws, mid + 1, hi)

\* The words of ws with one space between them.
JoinWords(ws) == JoinRange(ws, 1, Len(ws))

\* Every text of at most MaxTokens words of Vocabulary.
SmallTexts ==
  {JoinWords(ws) : ws \in UNION {[1..n -> Vocabulary] : n \in 0..MaxTokens}}

\* The i-th of a family of distinct words of 8 or 9 letters: "word", four
\* letters that spell i in base 3, and an "s" for every fifth i.
GenWord(i) ==
  <<"w","o","r","d">>
    \o <<LowerLetters[1 + ((i \div 27) % 3)], LowerLetters[1 + ((i \div 9) % 3)],
         LowerLetters[1 + ((i \div 3) % 3)], LowerLetters[1 + (i % 3)]>>
    \o (IF i % 5 = 0 THEN <<"s">> ELSE <<>>)

\* n distinct long words in descending alphabetical order, every seventh of
\* them twice.
LongText(n) ==
  JoinWords([k \in 1..n |->
               LET w == GenWord(n + 1 - k)
               IN  IF k % 7 = 0 THEN w \o <<" ">> \o w ELSE w])

\* Texts with about as many candidates as the result list may hold.
LongTexts == {LongText(n) : n \in (Limit - 2)..(Limit + MaxOver)}

RankTexts == SmallTexts \cup LongTexts

InitRank ==
  /\ dictionaryData = <<>>
  /\ storage = Absent
  /\ userDict = loadUserDictionary(Absent)
  /\ prevDict = loadUserDictionary(Absent)
  /\ queue = <<>>
  /\ mode = "upload"
  /\ fileName = <<>>
  /\ uploadedText = <<>>
  /\ results = <<>>
  /\ lastCall = NoCall
  /\ input \in {[text |-> t, word |-> <<>>] : t \in RankTexts}
  /\ output = <<>>
  /\ reading = <<>>
  /\ supplied = NoFile
  /\ attempt = NoCall

\* The one upload: the file read resolves with the input text.
UploadInput ==
  /\ mode = "upload"
  /\ handleFile([name |-> <<"i","n">> \o DotTxt, text |-> input.text])
  /\ UNCHANGED <<reading, supplied>>

SpecRank == InitRank /\ [][UploadInput]_vars

----------------------------------------------------------------------------
(* The example extractor on its own: one call for each text and word *)

MaxTextLen == 5

ExampleChars == {"a", "A", " ", ".", "\n", IDot}
ExampleWords == {<<"a">>}

ExampleTexts == UNION {[1..n -> ExampleChars] : n \in 0..MaxTextLen}

InitExtract ==
  /\ dictionaryData = <<>>
  /\ storage = Absent
  /\ userDict = loadUserDictionary(Absent)
  /\ prevDict = loadUserDictionary(Absent)
  /\ queue = <<>>
  /\ mode = "upload"
  /\ fileName = <<>>
  /\ uploadedText = <<>>
  /\ results = <<>>
  /\ lastCall = NoCall
  /\ input \in {[text |-> t, word |-> w] : t \in ExampleTexts, w \in ExampleWords}
  /\ output = <<>>
  /\ reading = <<>>
  /\ supplied = NoFile
  /\ attempt = NoCall

\* The call extractExampleSentence(input.text, input.word); it returns a
\* sentence or the sentinel, never the empty string.
CallExtract ==
  /\ output = <<>>
  /\ output' = extractExampleSentence(input.text, input.word)
  /\ UNCHANGED <<dictionaryData, storage, userDict, queue, mode, fileName, uploadedText,
                 results, lastCall, prevDict, input, reading, supplied, attempt>>

SpecExtract == InitExtract /\ [][CallExtract]_vars

----------------------------------------------------------------------------
(* The tokenizer on its own: one call for each text of TokenTexts *)

TokenChars == {"a", "B", "'", "1", "."}

TokenTexts == UNION {[1..n -> TokenChars] : n \in 0..MaxTextLen}

InitTokenize ==
  /\ dictionaryData = <<>>
  /\ storage = Absent
  /\ userDict = loadUserDictionary(Absent)
  /\ prevDict = loadUserDictionary(Absent)
  /\ queue = <<>>
  /\ mode = "upload"
  /\ fileName = <<>>
  /\ uploadedText = <<>>
  /\ results = <<>>
  /\ lastCall = NoCall
  /\ input \in {[text |-> t, word |-> <<>>] : t \in TokenTexts}
  /\ output = <<>>
  /\ reading = <<>>
  /\ supplied = NoFile
  /\ attempt = NoCall

\* The call tokenize(input.text); output holds the array it returns, as its
\* one element.
CallTokenize ==
  /\ output = <<>>
  /\ output' = <<tokenize(input.text)>>
  /\ UNCHANGED <<dictionaryData, storage, userDict, queue, mode, fileName, uploadedText,
                 results, lastCall, prevDict, input, reading, supplied, attempt>>

SpecTokenize == InitTokenize /\ [][CallTokenize]_vars

----------------------------------------------------------------------------
(* The upload screen with its file reads in flight *)

MaxReads == 3

UploadFiles ==
  {[name |-> <<"a">> \o DotTxt, text |-> Text1],
   [name |-> <<"b",".","T","X","T">>, text |-> Text2],
   [name |-> <<"c",".","m","d">>, text |-> Abandons]}

\* String.prototype.endsWith
EndsWith(s, suffix) ==
  Len(s) >= Len(suffix) /\ SubSeq(s, Len(s) - Len(suffix) + 1, Len(s)) = suffix

\* handleFile up to its await: file.text() is called and its promise pends.
StartRead(file) ==
  /\ Len(reading) < MaxReads
  /\ reading' = Append(reading, file)
  /\ supplied' = [name |-> file.name, text |-> file.text, reset |-> FALSE]
  /\ UNCHANGED <<dictionaryData, storage, userDict, queue, mode, fileName, uploadedText,
                 results, lastCall, prevDict, input, output, attempt>>

\* onDrop with the first dropped file: a name that does not end in ".txt"
\* gets an alert and nothing else.
onDrop(file) ==
  IF ~EndsWith(toLowerCase(file.name), DotTxt)
    THEN UNCHANGED vars
    ELSE StartRead(file)

\* onChange of the file input with the chosen file.  The accept attribute
\* filters what the chooser lists first; the user can pick any file.
onChange(file) == StartRead(file)

\* The drop zone and the file input are rendered in "upload" mode only.
Drop == mode = "upload" /\ \E file \in UploadFiles : onDrop(file)
Choose == mode = "upload" /\ \E file \in UploadFiles : onChange(file)

\* A pending file.text() resolves, whichever, and handleFile goes on.
ReadResolved ==
  \E i \in 1..Len(reading) :
    /\ handleFile(reading[i])
    /\ reading' = SubSeq(reading, 1, i - 1) \o SubSeq(reading, i + 1, Len(reading))
    /\ UNCHANGED supplied

\* The reset button of ResultsDisplay.
ResetClicked ==
  /\ mode = "results"
  /\ onReset
  /\ supplied' = [supplied EXCEPT !.reset = TRUE]
  /\ UNCHANGED reading

InitUpload ==
  /\ dictionaryData = <<>>
  /\ storage = Absent
  /\ userDict = loadUserDictionary(Absent)
  /\ prevDict = loadUserDictionary(Absent)
  /\ queue = <<>>
  /\ mode = "upload"
  /\ fileName = <<>>
  /\ uploadedText = <<>>
  /\ results = <<>>
  /\ lastCall = NoCall
  /\ input = NoInput
  /\ output = <<>>
  /\ reading = <<>>
  /\ supplied = NoFile
  /\ attempt = NoCall

NextUpload == Drop \/ Choose \/ ReadResolved \/ ResetClicked

SpecUpload == InitUpload /\ [][NextUpload]_vars

----------------------------------------------------------------------------
(* The first render on its own: one load of each slot of LoadSlots *)

MaxEntries == 2

FooRaw == <<"F","o","o"," ">>
Foo == <<"f","o","o">>
ABarRaw == <<" ","a"," ","b","a","r"," ">>

LoadKeys == {<<" ">>, FooRaw, Foo, ProtoKey}
LoadValues == {JNull, JNumber(<<"5">>), JString(<<" ">>), JString(ABarRaw)}

\* Lists of at most MaxEntries entries with pairwise different keys, as
\* JSON.parse leaves them.
LoadEntries ==
  {es \in UNION {[1..n -> LoadKeys \X LoadValues] : n \in 0..MaxEntries} :
     \A i, j \in 1..Len(es) : i # j => es[i][1] # es[j][1]}

LoadItems == UNION {[1..n -> LoadValues] : n \in 0..MaxEntries}

LoadSlots ==
  {Absent, Unparseable, Json(JNull), Json(JNumber(<<"5">>)), Json(JString(ABarRaw))}
    \cup {Json(JArray(items)) : items \in LoadItems}
    \cup {Json(JObject(es)) : es \in LoadEntries}

\* Before the first render: the state hooks hold nothing yet.
InitLoad ==
  /\ dictionaryData = <<>>
  /\ storage \in LoadSlots
  /\ userDict = EmptyMap
  /\ prevDict = EmptyMap
  /\ queue = <<>>
  /\ mode = "upload"
  /\ fileName = <<>>
  /\ uploadedText = <<>>
  /\ results = <<>>
  /\ lastCall = NoCall
  /\ input = NoInput
  /\ output = <<>>
  /\ reading = <<>>
  /\ supplied = NoFile
  /\ attempt = NoCall

\* The first render: useState runs its initializer, loadUserDictionary.
FirstRender ==
  /\ lastCall = NoCall
  /\ userDict' = loadUserDictionary(storage)
  /\ prevDict' = loadUserDictionary(storage)
  /\ lastCall' = [op |-> "load", word |-> <<>>, definition |-> <<>>]
  /\ UNCHANGED <<dictionaryData, storage, queue, mode, fileName, uploadedText, results,
                 input, output, reading, supplied, attempt>>

SpecLoad == InitLoad /\ [][FirstRender]_vars

----------------------------------------------------------------------------
(* Claims about the dictionaries, checked under Spec *)

\* The words a lookup is tried with: every raw form the model passes to an
\* operation, and every key in play.
LookupWords ==
  RawWords \cup {Abandons, Whatever} \cup DOMAIN userDict \cup DOMAIN prevDict
    \cup DOMAIN baseDictMap

currentMap == combinedDictMapOf(baseDictMap, userDict)

\* What the base dictionary alone answers for a normalized word.
BaseAnswer(key) ==
  IF key \in DOMAIN baseDictMap THEN baseDictMap[key] ELSE NotInDictionary

\* C1: every result record shows the user mapping's value for its normalized
\* word if there is one, else the base dictionary's, else the sentinel.
C1_UserThenBaseThenSentinel ==
  \A i \in 1..Len(results) :
    LET key == normalizeWord(results[i].word)
    IN  results[i].definition =
          IF key \in DOMAIN userDict THEN userDict[key] ELSE BaseAnswer(key)

C1_Witness ==
  \E i \in 1..Len(results) :
    LET key == normalizeWord(results[i].word)
    IN  /\ key \in DOMAIN userDict
        /\ key \in DOMAIN baseDictMap
        /\ userDict[key] # baseDictMap[key]
        /\ results[i].definition = userDict[key]

\* The last call was an accepted upsert and its render is over.
UpsertDone == queue = <<>> /\ lastCall.op = "upsert"
\* The last call was an accepted remove and its render is over.
RemoveDone == queue = <<>> /\ lastCall.op = "remove"

SameWord(v, word) == normalizeWord(v) = normalizeWord(word)

\* C2 as stated: after upsert(w, d) a lookup for w, in any case and with or
\* without surrounding white space, returns d.
C2_LookupReturnsGivenDefinition ==
  UpsertDone =>
    \A v \in LookupWords :
      SameWord(v, lastCall.word) => Lookup(currentMap, v) = lastCall.definition

\* C2 amended: after upsert(w, d) a lookup for w, in any case and with or
\* without surrounding white space, returns d with its surrounding white
\* space trimmed.
C2_LookupReturnsTrimmedDefinition ==
  UpsertDone =>
    \A v \in LookupWords :
      SameWord(v, lastCall.word) => Lookup(currentMap, v) = Trim(lastCall.definition)

C2_Witness ==
  /\ UpsertDone
  /\ lastCall.word = AardvarkRaw
  /\ Aardvark \in DOMAIN prevDict
  /\ prevDict[Aardvark] # Trim(lastCall.definition)
  /\ Aardvark \in DOMAIN baseDictMap
  /\ Lookup(currentMap, Aardvark) = Trim(lastCall.definition)

\* C3: after remove(w) a lookup for w returns the base dictionary's
\* definition, or the sentinel when the base has none, and every other
\* word's definition is what it was before the remove.
C3_RemoveFallsBack ==
  RemoveDone =>
    \A v \in LookupWords :
      IF SameWord(v, lastCall.word)
        THEN Lookup(currentMap, v) = BaseAnswer(normalizeWord(v))
        ELSE Lookup(currentMap, v) = Lookup(combinedDictMapOf(baseDictMap, prevDict), v)

C3_Witness ==
  /\ RemoveDone
  /\ normalizeWord(lastCall.word) \in DOMAIN prevDict
  /\ normalizeWord(lastCall.word) \in DOMAIN baseDictMap
  /\ \E k \in DOMAIN userDict : Lookup(currentMap, k) = userDict[k]

\* C4: every key of the user mapping is non-empty, trimmed and lower case,
\* and every value is non-empty and trimmed.
C4_StoredEntriesNormalized ==
  \A k \in DOMAIN userDict :
    /\ k # <<>>
    /\ Trim(k) = k
    /\ toLowerCase(k) = k
    /\ userDict[k] # <<>>
    /\ Trim(userDict[k]) = userDict[k]

C4_Witness ==
  /\ UpsertDone
  /\ lastCall.word = AardvarkRaw
  /\ lastCall.definition # Trim(lastCall.definition)
  /\ DOMAIN userDict = {Aardvark, ProtoKey}

\* C5: once a mutation has been applied, the slot holds exactly the user
\* mapping, and loading the slot gives that mapping back.
C5_SlotHoldsMapping ==
  (queue = <<>> /\ lastCall.op # "none") =>
    /\ storage = saveUserDictionary(userDict)
    /\ loadUserDictionary(storage) = userDict

\* C6: whenever a mutating call has returned, the slot holds its effect:
\* the mapping that results from every update accepted so far.
C6_PersistedWhenCallReturns ==
  queue # <<>> =>
    storage = saveUserDictionary(ProcessQueue(queue, userDict, storage, prevDict)[1])

\* C15: in every state, whatever uploads, resets, upserts and removes led to
\* it, the definition of each displayed record is the lookup of its word
\* against the user mapping of that state and the base dictionary.
C15_NoStaleDefinition ==
  \A i \in 1..Len(results) :
    results[i].definition = Lookup(currentMap, results[i].word)

\* The last mutation changed the definition of a displayed record.
C15_Witness ==
  /\ queue = <<>>
  /\ lastCall.op \in {"upsert", "remove"}
  /\ \E i \in 1..Len(results) :
       /\ results[i].definition = Lookup(currentMap, results[i].word)
       /\ results[i].definition
            # Lookup(combinedDictMapOf(baseDictMap, prevDict), results[i].word)

----------------------------------------------------------------------------
(* Claims about the ranker, checked under SpecRank *)

Occurrences(tokens, w) == Cardinality({i \in 1..Len(tokens) : tokens[i] = w})

FirstIndex(tokens, w) == Min({i \in 1..Len(tokens) : tokens[i] = w})

\* The tokens that are no stopword and have at least 8 characters.
QualifyingTokens(tokens) ==
  {tokens[i] : i \in {j \in 1..Len(tokens) :
                        tokens[j] \notin STOPWORDS /\ Len(tokens[j]) >= 8}}

ResultWords == {results[i].word : i \in 1..Len(results)}

\* a sorts before b letter by letter, for two tokens of the same length.
LexBefore(a, b) ==
  \E i \in 1..Len(a) :
    /\ \A j \in 1..(i - 1) : a[j] = b[j]
    /\ CollationRank(a[i]) < CollationRank(b[i])

\* The chain, for tokens a and b with ca and cb occurrences: fewer
\* occurrences first, then the longer token, then the alphabetically earlier.
ChainBefore(a, ca, b, cb) ==
  \/ ca < cb
  \/ ca = cb /\ Len(a) > Len(b)
  \/ ca = cb /\ Len(a) = Len(b) /\ LexBefore(a, b)

\* The number of occurrences of each result word in the tokens.
ResultCounts(tokens) == [i \in 1..Len(results) |-> Occurrences(tokens, results[i].word)]

\* C7: each entry of the ranked list is strictly before the next one in the
\* chain (count ascending, length descending, alphabetical ascending).
C7_StrictlyOrderedByChain ==
  LET count == ResultCounts(tokenize(uploadedText))
  IN  \A i \in 1..(Len(results) - 1) :
        ChainBefore(results[i].word, count[i], results[i + 1].word, count[i + 1])

\* All three links of the chain decide some adjacent pair, and an
\* alphabetical tie-break reverses the order of first appearance.
C7_Witness ==
  LET tokens == tokenize(uploadedText)
      count == ResultCounts(tokens)
  IN  /\ \E i \in 1..(Len(results) - 1) : count[i] < count[i + 1]
      /\ \E i \in 1..(Len(results) - 1) :
           count[i] = count[i + 1] /\ Len(results[i].word) > Len(results[i + 1].word)
      /\ \E i \in 1..(Len(results) - 1) :
           /\ count[i] = count[i + 1]
           /\ Len(results[i].word) = Len(results[i + 1].word)
           /\ FirstIndex(tokens, results[i + 1].word) < FirstIndex(tokens, results[i].word)

\* C8: the result list holds min(75, number of qualifying tokens) records,
\* each a qualifying token, none twice, and every qualifying token left out
\* comes after every record in the chain.
C8_FirstLimitOfSortedCandidates ==
  LET tokens == tokenize(uploadedText)
      qualifying == QualifyingTokens(tokens)
      count == ResultCounts(tokens)
  IN  /\ Len(results) = IF Cardinality(qualifying) < 75 THEN Cardinality(qualifying) ELSE 75
      /\ ResultWords \subseteq qualifying
      /\ Cardinality(ResultWords) = Len(results)
      /\ \A w \in qualifying \ ResultWords :
           LET cw == Occurrences(tokens, w)
           IN  \A i \in 1..Len(results) : ChainBefore(results[i].word, count[i], w, cw)

C8_Witness ==
  /\ Cardinality(QualifyingTokens(tokenize(uploadedText))) > 75
  /\ Len(results) = 75

\* C9: the candidates are exactly the tokens of the text that are no
\* stopword and have at least 8 characters, each with the number of its
\* occurrences; when they are at most 75, they are the words of the results.
C9_CandidatesAreQualifyingTokens ==
  LET tokens == tokenize(uploadedText)
      qualifying == QualifyingTokens(tokens)
      candidates == Filtered(uploadedText)
  IN  /\ {candidates[i][1] : i \in 1..Len(candidates)} = qualifying
      /\ \A i \in 1..Len(candidates) :
           candidates[i][2] = Occurrences(tokens, candidates[i][1])
      /\ Cardinality(qualifying) <= 75 => ResultWords = qualifying

\* A 7-letter token is left out; an 8-letter token that occurs twice is a
\* candidate.
C9_Witness ==
  LET tokens == tokenize(uploadedText)
  IN  /\ mode = "results"
      /\ \E i \in 1..Len(tokens) : Len(tokens[i]) = 7
      /\ \E w \in ResultWords : Len(w) = 8 /\ Occurrences(tokens, w) = 2

\* w is written somewhere in s, character for character.
OccursIn(s, w) == \E p \in 0..(Len(s) - Len(w)) : StandsAt(s, w, p)

\* C14 as stated: the word of every record is a surface form of the uploaded
\* text, written there in the same letter case.
C14_WordIsSurfaceForm ==
  \A i \in 1..Len(results) : OccursIn(uploadedText, results[i].word)

\* C14 amended: the word of every record is the lower-case token: it has no
\* upper-case letter and is written in the lower-cased text, whatever the
\* case of its occurrences in the text itself.
C14_WordIsLowerCaseToken ==
  LET lower == toLowerCase(uploadedText)
  IN  \A i \in 1..Len(results) :
        /\ \A k \in 1..Len(results[i].word) : results[i].word[k] \notin UpperSet
        /\ OccursIn(lower, results[i].word)

\* A word that the text has in upper case only is shown in lower case.
C14_Witness ==
  \E i \in 1..Len(results) :
    /\ ~OccursIn(uploadedText, results[i].word)
    /\ OccursIn(uploadedText, AardvarkUpper)
    /\ results[i].word = Aardvark

\* C20: the example of every record is not the sentinel "No example found
\* in your text." and has the record's word in it, in some letter case.
C20_EveryRecordHasExample ==
  \A i \in 1..Len(results) :
    /\ results[i].exampleFromText # NoExample
    /\ OccursIn(toLowerCase(results[i].exampleFromText), results[i].word)

----------------------------------------------------------------------------
(* Claims about the example extractor, checked under SpecExtract *)

\* Two characters are the same letter up to case.
SameLetter(c, d) == LowerOfChar(c) = LowerOfChar(d)

\* word stands at 0-based position p of text, in any letter case, between
\* two word boundaries of the text.
WholeWordAt(text, word, p) ==
  /\ p + Len(word) <= Len(text)
  /\ \A k \in 1..Len(word) : SameLetter(text[p + k], word[k])
  /\ IsBoundary(text, p)
  /\ IsBoundary(text, p + Len(word))

MatchPositions(text, word) == {p \in 0..Len(text) : WholeWordAt(text, word, p)}

\* The occurrence at p has no IDot next to it: it is a whole word also for a
\* reader who takes IDot for the letter it is.
StandsAlone(text, word, p) ==
  /\ ~(p > 0 /\ text[p] = IDot)
  /\ ~(p + Len(word) < Len(text) /\ text[p + Len(word) + 1] = IDot)

\* The sentence around 0-based position m: from just after the nearest
\* terminator before m, or the start, to just after the nearest terminator
\* at or after m, or the end.
SentenceStart(text, m) ==
  LET before == {k \in 0..(m - 1) : text[k + 1] \in Terminators}
  IN  IF before = {} THEN 0 ELSE Max(before) + 1

SentenceEnd(text, m) ==
  LET after == {k \in m..(Len(text) - 1) : text[k + 1] \in Terminators}
  IN  IF after = {} THEN Len(text) ELSE Min(after) + 1

\* C10: when the word has a whole-word match in the text, the value returned
\* is the trimmed substring of the text from just after the nearest
\* terminator before the first match (or the start) to just after the
\* nearest terminator at or after it (or the end), a span that holds the
\* matched occurrence and ends with its closing terminator.
C10_SentenceAroundFirstMatch ==
  (output # <<>> /\ MatchPositions(input.text, input.word) # {}) =>
    LET m == Min(MatchPositions(input.text, input.word))
        from == SentenceStart(input.text, m)
        to == SentenceEnd(input.text, m)
    IN  StandsAlone(input.text, input.word, m) =>
          /\ output = Trim(Slice(input.text, from, to))
          /\ from <= m /\ m + Len(input.word) <= to

----------------------------------------------------------------------------
(* Claims about the load, checked under SpecLoad *)

Loaded == lastCall.op = "load"

\* The slot parses to a JSON object, neither null nor an array.
HoldsObject == storage.kind = "json" /\ storage.value.t = "object"

\* C12: the load returns, and it returns the empty mapping when the slot is
\* absent, does not parse, or parses to anything but an object (null, a
\* number, a string, an array).
C12_EmptyUnlessObject ==
  (Loaded /\ ~HoldsObject) => userDict = EmptyMap

\* The persisted entries whose key and value are both non-empty once
\* normalized.
KeptEntries(entries) ==
  {i \in 1..Len(entries) :
     normalizeWord(entries[i][1]) # <<>> /\ Trim(ValueToString(entries[i][2])) # <<>>}

\* C13: the loaded mapping has exactly the normalized keys of the persisted
\* entries that are non-empty after normalization, each with the trimmed
\* value of such an entry; a persisted {"Foo ": " a bar "} makes a lookup for
\* "foo" return "a bar".
C13_LoadedEntriesNormalized ==
  (Loaded /\ HoldsObject) =>
    LET entries == storage.value.entries
        kept == KeptEntries(entries)
    IN  /\ DOMAIN userDict = {normalizeWord(entries[i][1]) : i \in kept}
        /\ \A k \in DOMAIN userDict :
             \E i \in kept : /\ normalizeWord(entries[i][1]) = k
                              /\ userDict[k] = Trim(ValueToString(entries[i][2]))
        /\ (entries = << <<FooRaw, JString(ABarRaw)>> >>) =>
             Lookup(combinedDictMapOf(baseDictMap, userDict), Foo) = Trim(ABarRaw)

----------------------------------------------------------------------------
(* Claims about the upload, checked under SpecUpload *)

IsTxt(name) == EndsWith(toLowerCase(name), DotTxt)

\* C16: no file whose name does not end in ".txt", in any letter case, is
\* read by handleFile, and the analysed text never comes from such a file.
C16_OnlyTxtReachesCore ==
  /\ \A i \in 1..Len(reading) : IsTxt(reading[i].name)
  /\ mode = "results" => IsTxt(fileName)

\* C19: once no read is pending, the text and the file name are those of
\* the file supplied last; and once reset, the app stays in upload mode with
\* no text until another file is supplied.
C19_LastSuppliedFileWins ==
  /\ (reading = <<>> /\ supplied # NoFile /\ ~supplied.reset) =>
       uploadedText = supplied.text /\ fileName = supplied.name
  /\ supplied.reset => mode = "upload" /\ uploadedText = <<>>

----------------------------------------------------------------------------
(* Claims about the tokenizer, checked under SpecTokenize *)

Apostrophes(token) == {k \in 1..Len(token) : token[k] = "'"}

\* C17: every token is a non-empty run of the letters a to z with at most one
\* apostrophe, which is neither first nor last; a text without a letter has
\* no token.
C17_TokensAreLowerCaseRuns ==
  output # <<>> =>
    LET tokens == output[1]
    IN  /\ \A i \in 1..Len(tokens) :
             /\ tokens[i] # <<>>
             /\ \A k \in 1..Len(tokens[i]) : tokens[i][k] \in LowerSet \cup {"'"}
             /\ Cardinality(Apostrophes(tokens[i])) <= 1
             /\ tokens[i][1] \in LowerSet
             /\ tokens[i][Len(tokens[i])] \in LowerSet
        /\ (\A p \in 1..Len(input.text) : input.text[p] \notin LowerSet \cup UpperSet)
             => tokens = <<>>

\* A text with an upper-case letter, a digit, an apostrophe inside a word
\* and one at the end of a word.
C17_Witness ==
  /\ output # <<>>
  /\ \E i \in 1..Len(output[1]) : Apostrophes(output[1][i]) # {}
  /\ \E p \in 1..Len(input.text) : input.text[p] \in UpperSet
  /\ \E p \in 1..Len(input.text) : input.text[p] \in Digits
  /\ \E p \in 2..Len(input.text) :
       /\ input.text[p] = "'"
       /\ input.text[p - 1] \in LowerSet \cup UpperSet
       /\ p = Len(input.text) \/ input.text[p + 1] \notin LowerSet \cup UpperSet

----------------------------------------------------------------------------
(* Claims about rejected calls, checked under SpecCalls *)

\* The word or the definition of the call is empty once trimmed.
EmptyAfterTrim(call) == Trim(call.word) = <<>> \/ Trim(call.definition) = <<>>

\* C18: a step in which an upsert is made, from the add form or directly,
\* with a word or a definition that is empty after trimming, leaves the user
\* mapping, its pending updates, the slot and the displayed results as they
\* were.
C18_EmptyUpsertIsNoOp ==
  [][(/\ attempt' # attempt
      /\ attempt'.op \in {"form", "upsert"}
      /\ EmptyAfterTrim(attempt'))
       => UNCHANGED <<userDict, queue, storage, results>>]_vars

\* A rejected upsert has been made while the mapping, the slot and the
\* result list all held something.
C18_Witness ==
  /\ attempt.op \in {"form", "upsert"}
  /\ EmptyAfterTrim(attempt)
  /\ Trim(attempt.word) # <<>>
  /\ userDict # EmptyMap
  /\ storage = saveUserDictionary(userDict)
  /\ results # <<>>

====
